---- MODULE Spec2Model ----
(***************************************************************************)
(* Model of the PCM4104 register driver (src/lib.rs).                      *)
(*                                                                         *)
(* The driver owns an SPI transport and turns each public operation into   *)
(* one, two or three 2-byte SPI transactions.  The operations are async:   *)
(* a call suspends exactly at its transport calls.  A call is therefore    *)
(* one action that makes the call and runs the handler up to its first     *)
(* register access, followed by one action per register access that runs   *)
(* read_register / write_register (address check and transaction) and the  *)
(* handler on to the next register access or to its return.                *)
(*                                                                         *)
(* The transport is a spy in front of a model device: it records every     *)
(* transaction (bytes sent, bytes received, outcome), can be told to fail  *)
(* the k-th transaction of a call, and otherwise stores written bytes in   *)
(* the addressed register and echoes them on read.                         *)
(***************************************************************************)
EXTENDS Integers, Sequences, FiniteSets, TLC

\* ------------------------------------------------------------------------
\* u8 arithmetic
\* ------------------------------------------------------------------------

Byte == 0..255

RECURSIVE BitAnd(_, _)
BitAnd(a, b) ==
    IF a = 0 \/ b = 0 THEN 0
    ELSE (a % 2) * (b % 2) + 2 * BitAnd(a \div 2, b \div 2)

RECURSIVE BitOr(_, _)
BitOr(a, b) ==
    IF a = 0 THEN b
    ELSE IF b = 0 THEN a
    ELSE (IF a % 2 = 1 \/ b % 2 = 1 THEN 1 ELSE 0) + 2 * BitOr(a \div 2, b \div 2)

\* !x on a u8
BitNot(a) == 255 - a

\* x << n on a u8
Shl(a, n) == (a * (2 ^ n)) % 256

\* bit i of a byte, as used by the properties below
Bit(v, i) == (v \div (2 ^ i)) % 2

BoolBit(b) == IF b THEN 1 ELSE 0

\* ------------------------------------------------------------------------
\* Types of the driver
\* ------------------------------------------------------------------------

SamplingMode == {"SingleRate", "DualRate", "QuadRate"}

SamplingModeU8(m) ==
    CASE m = "SingleRate" -> 0
      [] m = "DualRate"   -> 1
      [] m = "QuadRate"   -> 2

AudioDataFormat ==
    {"LeftJustified24Bit", "I2s24Bit", "TdmZeroBckDelay", "TdmOneBckDelay",
     "RightJustified24Bit", "RightJustified20Bit", "RightJustified18Bit",
     "RightJustified16Bit"}

AudioDataFormatU8(f) ==
    CASE f = "LeftJustified24Bit"  -> 0
      [] f = "I2s24Bit"            -> 1
      [] f = "TdmZeroBckDelay"     -> 2
      [] f = "TdmOneBckDelay"      -> 3
      [] f = "RightJustified24Bit" -> 4
      [] f = "RightJustified20Bit" -> 5
      [] f = "RightJustified18Bit" -> 6
      [] f = "RightJustified16Bit" -> 7

LrckPolarity == {"Normal", "Inverted"}

LrckPolarityU8(p) ==
    CASE p = "Normal"   -> 0
      [] p = "Inverted" -> 1

BckSamplingEdge == {"Rising", "Falling"}

BckSamplingEdgeU8(e) ==
    CASE e = "Rising"  -> 0
      [] e = "Falling" -> 1

DeEmphasis == {"Disabled", "Fs48Khz", "Fs44_1Khz", "Fs32Khz"}

DeEmphasisU8(d) ==
    CASE d = "Disabled"  -> 0
      [] d = "Fs48Khz"   -> 1
      [] d = "Fs44_1Khz" -> 2
      [] d = "Fs32Khz"   -> 3

OutputPhase == {"NonInverted", "Inverted"}

OutputPhaseU8(p) ==
    CASE p = "NonInverted" -> 0
      [] p = "Inverted"    -> 1

OutputChannel == {"Channel1", "Channel2", "Channel3", "Channel4"}

Pcm4104Config ==
    [sampling_mode     : SamplingMode,
     audio_data_format : AudioDataFormat,
     lrck_polarity     : LrckPolarity,
     bck_sampling_edge : BckSamplingEdge,
     de_emphasis       : DeEmphasis,
     output_phase      : OutputPhase,
     zero_data_mute    : BOOLEAN,
     soft_mute         : BOOLEAN,
     power_down        : BOOLEAN]

\* #[derive(Default)] on Pcm4104Config and the #[default] variants
DefaultConfig ==
    [sampling_mode     |-> "SingleRate",
     audio_data_format |-> "LeftJustified24Bit",
     lrck_polarity     |-> "Normal",
     bck_sampling_edge |-> "Rising",
     de_emphasis       |-> "Disabled",
     output_phase      |-> "NonInverted",
     zero_data_mute    |-> FALSE,
     soft_mute         |-> FALSE,
     power_down        |-> FALSE]

Ok == [tag |-> "Ok"]
OkValue(v) == [tag |-> "Ok", val |-> v]
Err(e) == [tag |-> e]
NoResult == [tag |-> "none"]

\* ------------------------------------------------------------------------
\* Register encodings computed by the handlers
\* ------------------------------------------------------------------------

\* Variant of the pre-check that only knows DualRate.
DeEmphasisRejected_DualRateOnly(config) ==
    config.de_emphasis # "Disabled" /\ config.sampling_mode = "DualRate"

\* configure: "Check if de-emphasis can be activated."
DeEmphasisRejected(config) ==
    config.de_emphasis # "Disabled" /\ config.sampling_mode # "SingleRate"

\* Variant of the register 5 encoding that raises only three mute bits.
FunctionControlValue_ThreeMuteBits(config) ==
    LET v0 == BitOr(DeEmphasisU8(config.de_emphasis),
                    Shl(OutputPhaseU8(config.output_phase), 2))
        v1 == IF config.zero_data_mute THEN BitOr(v0, Shl(1, 3)) ELSE v0
    IN  IF config.soft_mute THEN BitOr(v1, Shl(7, 4)) ELSE v1

\* Variant of the register 5 encoding that forgets zero_data_mute.
FunctionControlValue_NoZeroDataMute(config) ==
    LET v0 == BitOr(DeEmphasisU8(config.de_emphasis),
                    Shl(OutputPhaseU8(config.output_phase), 2))
    IN  IF config.soft_mute THEN BitOr(v0, Shl(15, 4)) ELSE v0

\* configure, Register 5: Function Control Register.
FunctionControlValue(config) ==
    LET v0 == BitOr(DeEmphasisU8(config.de_emphasis),
                    Shl(OutputPhaseU8(config.output_phase), 2))
        v1 == IF config.zero_data_mute THEN BitOr(v0, Shl(1, 3)) ELSE v0
    IN  IF config.soft_mute THEN BitOr(v1, Shl(15, 4)) ELSE v1

\* Variant of the register 6 encoding that raises one power-down bit.
SystemControlValue_OnePowerBit(config) ==
    LET v0 == SamplingModeU8(config.sampling_mode)
    IN  IF config.power_down THEN BitOr(v0, Shl(1, 2)) ELSE v0

\* configure, Register 6: System Control Register.
SystemControlValue(config) ==
    LET v0 == SamplingModeU8(config.sampling_mode)
    IN  IF config.power_down THEN BitOr(v0, Shl(3, 2)) ELSE v0

\* Variant of the register 7 encoding with the polarity one bit too low.
AudioSerialPortValue_PolarityBit3(config) ==
    BitOr(BitOr(AudioDataFormatU8(config.audio_data_format),
                Shl(LrckPolarityU8(config.lrck_polarity), 3)),
          Shl(BckSamplingEdgeU8(config.bck_sampling_edge), 5))

\* configure, Register 7: Audio Serial Port Control Register.
AudioSerialPortValue(config) ==
    BitOr(BitOr(AudioDataFormatU8(config.audio_data_format),
                Shl(LrckPolarityU8(config.lrck_polarity), 4)),
          Shl(BckSamplingEdgeU8(config.bck_sampling_edge), 5))

\* Variant of the attenuation register map that counts channels from zero.
AttenuationAddr_ZeroBased(channel) ==
    CASE channel = "Channel1" -> 0
      [] channel = "Channel2" -> 1
      [] channel = "Channel3" -> 2
      [] channel = "Channel4" -> 3

\* set_attenuation: the register of a channel
AttenuationAddr(channel) ==
    CASE channel = "Channel1" -> 1
      [] channel = "Channel2" -> 2
      [] channel = "Channel3" -> 3
      [] channel = "Channel4" -> 4

\* set_mute: bit_mask
MuteBitMask(channel) ==
    Shl(CASE channel = "Channel1" -> 1
          [] channel = "Channel2" -> 2
          [] channel = "Channel3" -> 4
          [] channel = "Channel4" -> 8, 4)

\* Variant of the mute update that clears with the mask instead of its complement.
MuteValue_NoComplement(value, channel, mute) ==
    IF mute THEN BitOr(value, MuteBitMask(channel))
    ELSE BitAnd(value, MuteBitMask(channel))

\* set_mute: the value written back, from the value read
MuteValue(value, channel, mute) ==
    IF mute THEN BitOr(value, MuteBitMask(channel))
    ELSE BitAnd(value, BitNot(MuteBitMask(channel)))

\* Variant of the power-down mask that pairs Channel2 with Channel3/Channel4.
PowerDownBitMask_WrongPair(channel) ==
    Shl(CASE channel \in {"Channel1"} -> 1
          [] channel \in {"Channel2", "Channel3", "Channel4"} -> 2, 2)

\* set_power_down: bit_mask
PowerDownBitMask(channel) ==
    Shl(CASE channel \in {"Channel1", "Channel2"} -> 1
          [] channel \in {"Channel3", "Channel4"} -> 2, 2)

\* set_power_down: the value written back, from the value read
PowerDownValue(value, channel, down) ==
    IF down THEN BitOr(value, PowerDownBitMask(channel))
    ELSE BitAnd(value, BitNot(PowerDownBitMask(channel)))

\* Variant of the reset value with the bit one position too high.
ResetValue_Bit7 == Shl(1, 7)

\* reset: the value written to register 6
ResetValue == 64

\* Variant of the write command with the opcode bit one position too high.
WriteCommand_Bit6(addr) == BitOr(64, addr)

\* read_register / write_register: command bytes
ReadCommand(addr) == BitOr(160, addr)
WriteCommand(addr) == BitOr(32, addr)

\* Variant of the address check that admits the attenuation registers only.
InvalidAddr_AttenuationOnly(addr) == addr > 4

\* Variant of the address check that is off by one.
InvalidAddr_OffByOne(addr) == addr > 8

\* read_register / write_register: "if addr > 7"
InvalidAddr(addr) == addr > 7

\* ------------------------------------------------------------------------
\* State
\* ------------------------------------------------------------------------

\* Callers that may each have one call in flight on the device.
NumCallers == 2
Callers == 1..NumCallers

Addrs == 0..7

VARIABLES
    regs,       \* the device: register address -> byte
    pc,         \* per caller: "idle", or the transport call the call is suspended at
    call,       \* per caller: the current (or last) call and its arguments
    value,      \* per caller: the handler's local `value`, to be written next
    result,     \* per caller: what the last call returned
    log,        \* per caller: the transport calls the current (or last) call issued
    faultAt,    \* per caller: which transport call of the call fails (0: none)
    entryRegs,  \* per caller: the device registers when the call was made
    ncalls      \* number of calls made so far

vars == <<regs, pc, call, value, result, log, faultAt, entryRegs, ncalls>>

NoCall == [name |-> "none"]

\* ------------------------------------------------------------------------
\* The transport and the model device behind it
\* ------------------------------------------------------------------------

\* Wire protocol: opcode in bits[7:5], register address in bits[2:0].
DeviceOpcode(command) == command \div 32
DeviceAddr(command) == command % 8

\* The device after a 2-byte write frame.
DeviceWrite(r, tx) ==
    IF DeviceOpcode(tx[1]) = 1
    THEN [r EXCEPT ![DeviceAddr(tx[1])] = tx[2]]
    ELSE r

\* The bytes the device clocks out during a 2-byte transfer.
DeviceTransfer(r, tx) ==
    IF DeviceOpcode(tx[1]) = 5
    THEN <<0, r[DeviceAddr(tx[1])]>>
    ELSE <<0, 0>>

\* The next transport call of caller c is the one told to fail.
Faulted(c) == faultAt[c] = Len(log[c]) + 1

\* A failed write may or may not have reached the device.
Landings(c) == IF Faulted(c) THEN BOOLEAN ELSE {TRUE}

\* self.spi.write(&tx_buf)
SpiWrite(c, tx, landed) ==
    [ok   |-> ~Faulted(c),
     regs |-> IF landed THEN DeviceWrite(regs, tx) ELSE regs,
     log  |-> Append(log[c], [kind |-> "write", tx |-> tx, rx |-> <<>>,
                              ok |-> ~Faulted(c)])]

\* self.spi.transfer(&mut rx_buf, &tx_buf)
SpiTransfer(c, tx) ==
    LET rx == IF Faulted(c) THEN <<0, 0>> ELSE DeviceTransfer(regs, tx)
    IN  [ok  |-> ~Faulted(c),
         rx  |-> rx,
         log |-> Append(log[c], [kind |-> "transfer", tx |-> tx, rx |-> rx,
                                 ok |-> ~Faulted(c)])]

\* ------------------------------------------------------------------------
\* Register Access Layer
\* ------------------------------------------------------------------------

\* Variant of read_register that returns the first received byte.
read_register_FirstByte(c, addr) ==
    IF InvalidAddr(addr)
    THEN [res |-> Err("InvalidRegisterAddress"), log |-> log[c]]
    ELSE LET t == SpiTransfer(c, <<ReadCommand(addr), 0>>)
         IN  [res |-> IF t.ok THEN OkValue(t.rx[1]) ELSE Err("SpiError"),
              log |-> t.log]

\* Pcm4104::read_register: the result, and the transport log after it.
read_register(c, addr) ==
    IF InvalidAddr(addr)
    THEN [res |-> Err("InvalidRegisterAddress"), log |-> log[c]]
    ELSE LET t == SpiTransfer(c, <<ReadCommand(addr), 0>>)
         IN  [res |-> IF t.ok THEN OkValue(t.rx[2]) ELSE Err("SpiError"),
              log |-> t.log]

\* Pcm4104::write_register: the result, the device and the transport log after it.
write_register(c, addr, v, landed) ==
    IF InvalidAddr(addr)
    THEN [res |-> Err("InvalidRegisterAddress"), regs |-> regs, log |-> log[c]]
    ELSE LET t == SpiWrite(c, <<WriteCommand(addr), v>>, landed)
         IN  [res  |-> IF t.ok THEN Ok ELSE Err("SpiError"),
              regs |-> t.regs,
              log  |-> t.log]

\* ------------------------------------------------------------------------
\* Calls.  A call is made by an idle caller; `limit` caps the number of
\* calls of a behaviour and `fault` is the transport call told to fail.
\* ------------------------------------------------------------------------

CanCall(c, limit) == pc[c] = "idle" /\ ncalls < limit

Begin(c, theCall, fault, limit) ==
    /\ CanCall(c, limit)
    /\ ncalls' = ncalls + 1
    /\ call' = [call EXCEPT ![c] = theCall]
    /\ faultAt' = [faultAt EXCEPT ![c] = fault]
    /\ log' = [log EXCEPT ![c] = <<>>]
    /\ entryRegs' = [entryRegs EXCEPT ![c] = regs]

\* The call is suspended at transport call `at`, about to write/modify `v`.
Suspend(c, at, v) ==
    /\ pc' = [pc EXCEPT ![c] = at]
    /\ value' = [value EXCEPT ![c] = v]
    /\ result' = [result EXCEPT ![c] = NoResult]

\* The call returns r.
Return(c, r) ==
    /\ pc' = [pc EXCEPT ![c] = "idle"]
    /\ result' = [result EXCEPT ![c] = r]
    /\ UNCHANGED value

Frame == UNCHANGED <<call, faultAt, entryRegs, ncalls>>

\* The effect of a write_register outcome on the device and the spy.
Written(c, w) ==
    /\ regs' = w.regs
    /\ log' = [log EXCEPT ![c] = w.log]

\* --- configure ----------------------------------------------------------

Configure(c, config, fault, limit) ==
    /\ Begin(c, [name |-> "configure", config |-> config], fault, limit)
    /\ UNCHANGED regs
    /\ IF DeEmphasisRejected(config)
       THEN Return(c, Err("DeEmphasisNotAvailable"))
       ELSE Suspend(c, "configure_w5", FunctionControlValue(config))

\* Variant of the first write that keeps the mute bits the device holds.
ConfigureWrite5_KeepMuteBits(c) ==
    /\ pc[c] = "configure_w5"
    /\ \E landed \in Landings(c) :
         LET w == write_register(c, 5, BitOr(value[c], BitAnd(regs[5], 240)), landed)
         IN  /\ Written(c, w)
             /\ IF w.res = Ok
                THEN Suspend(c, "configure_w6", SystemControlValue(call[c].config))
                ELSE Return(c, w.res)
    /\ Frame

\* Variant of the first write that drops the `?`: a failed write is ignored.
ConfigureWrite5_IgnoreError(c) ==
    /\ pc[c] = "configure_w5"
    /\ \E landed \in Landings(c) :
         LET w == write_register(c, 5, value[c], landed)
         IN  /\ Written(c, w)
             /\ Suspend(c, "configure_w6", SystemControlValue(call[c].config))
    /\ Frame

ConfigureWrite5(c) ==
    /\ pc[c] = "configure_w5"
    /\ \E landed \in Landings(c) :
         LET w == write_register(c, 5, value[c], landed)
         IN  /\ Written(c, w)
             /\ IF w.res = Ok
                THEN Suspend(c, "configure_w6", SystemControlValue(call[c].config))
                ELSE Return(c, w.res)
    /\ Frame

\* Variant of the second write that addresses register 7.
ConfigureWrite6_Register7(c) ==
    /\ pc[c] = "configure_w6"
    /\ \E landed \in Landings(c) :
         LET w == write_register(c, 7, value[c], landed)
         IN  /\ Written(c, w)
             /\ IF w.res = Ok
                THEN Suspend(c, "configure_w7", AudioSerialPortValue(call[c].config))
                ELSE Return(c, w.res)
    /\ Frame

ConfigureWrite6(c) ==
    /\ pc[c] = "configure_w6"
    /\ \E landed \in Landings(c) :
         LET w == write_register(c, 6, value[c], landed)
         IN  /\ Written(c, w)
             /\ IF w.res = Ok
                THEN Suspend(c, "configure_w7", AudioSerialPortValue(call[c].config))
                ELSE Return(c, w.res)
    /\ Frame

ConfigureWrite7(c) ==
    /\ pc[c] = "configure_w7"
    /\ \E landed \in Landings(c) :
         LET w == write_register(c, 7, value[c], landed)
         IN  /\ Written(c, w)
             /\ Return(c, w.res)
    /\ Frame

\* --- set_attenuation ----------------------------------------------------

SetAttenuation(c, channel, atten, fault, limit) ==
    /\ Begin(c, [name |-> "set_attenuation", channel |-> channel, atten |-> atten],
             fault, limit)
    /\ UNCHANGED regs
    /\ Suspend(c, "set_attenuation_w", atten)

SetAttenuationWrite(c) ==
    /\ pc[c] = "set_attenuation_w"
    /\ \E landed \in Landings(c) :
         LET w == write_register(c, AttenuationAddr(call[c].channel), value[c], landed)
         IN  /\ Written(c, w)
             /\ Return(c, w.res)
    /\ Frame

\* --- set_mute -----------------------------------------------------------

SetMute(c, channel, mute, fault, limit) ==
    /\ Begin(c, [name |-> "set_mute", channel |-> channel, mute |-> mute],
             fault, limit)
    /\ UNCHANGED regs
    /\ Suspend(c, "set_mute_r", 0)

\* Variant of the mute read that carries on with a zero value when the read fails.
SetMuteRead_IgnoreError(c) ==
    /\ pc[c] = "set_mute_r"
    /\ LET r == read_register(c, 5)
           v == IF r.res.tag = "Ok" THEN r.res.val ELSE 0
       IN  /\ log' = [log EXCEPT ![c] = r.log]
           /\ Suspend(c, "set_mute_w", MuteValue(v, call[c].channel, call[c].mute))
    /\ UNCHANGED regs
    /\ Frame

SetMuteRead(c) ==
    /\ pc[c] = "set_mute_r"
    /\ LET r == read_register(c, 5)
       IN  /\ log' = [log EXCEPT ![c] = r.log]
           /\ IF r.res.tag = "Ok"
              THEN Suspend(c, "set_mute_w",
                           MuteValue(r.res.val, call[c].channel, call[c].mute))
              ELSE Return(c, r.res)
    /\ UNCHANGED regs
    /\ Frame

\* Variant of the mute write-back that recomputes the value from the device as
\* it is at the time of the write, as an atomic read-modify-write would.
SetMuteWrite_FreshValue(c) ==
    /\ pc[c] = "set_mute_w"
    /\ \E landed \in Landings(c) :
         LET w == write_register(c, 5, MuteValue(regs[5], call[c].channel, call[c].mute),
                                 landed)
         IN  /\ Written(c, w)
             /\ Return(c, w.res)
    /\ Frame

SetMuteWrite(c) ==
    /\ pc[c] = "set_mute_w"
    /\ \E landed \in Landings(c) :
         LET w == write_register(c, 5, value[c], landed)
         IN  /\ Written(c, w)
             /\ Return(c, w.res)
    /\ Frame

\* --- set_power_down -----------------------------------------------------

SetPowerDown(c, channel, down, fault, limit) ==
    /\ Begin(c, [name |-> "set_power_down", channel |-> channel, down |-> down],
             fault, limit)
    /\ UNCHANGED regs
    /\ Suspend(c, "set_power_down_r", 0)

SetPowerDownRead(c) ==
    /\ pc[c] = "set_power_down_r"
    /\ LET r == read_register(c, 6)
       IN  /\ log' = [log EXCEPT ![c] = r.log]
           /\ IF r.res.tag = "Ok"
              THEN Suspend(c, "set_power_down_w",
                           PowerDownValue(r.res.val, call[c].channel, call[c].down))
              ELSE Return(c, r.res)
    /\ UNCHANGED regs
    /\ Frame

SetPowerDownWrite(c) ==
    /\ pc[c] = "set_power_down_w"
    /\ \E landed \in Landings(c) :
         LET w == write_register(c, 6, value[c], landed)
         IN  /\ Written(c, w)
             /\ Return(c, w.res)
    /\ Frame

\* --- reset --------------------------------------------------------------

Reset(c, fault, limit) ==
    /\ Begin(c, [name |-> "reset"], fault, limit)
    /\ UNCHANGED regs
    /\ Suspend(c, "reset_w", ResetValue)

ResetWrite(c) ==
    /\ pc[c] = "reset_w"
    /\ \E landed \in Landings(c) :
         LET w == write_register(c, 6, value[c], landed)
         IN  /\ Written(c, w)
             /\ Return(c, w.res)
    /\ Frame

\* --- read_register / write_register as public operations ----------------

ReadRegister(c, addr, fault, limit) ==
    /\ Begin(c, [name |-> "read_register", addr |-> addr], fault, limit)
    /\ UNCHANGED regs
    /\ Suspend(c, "read_register_t", 0)

ReadRegisterTransfer(c) ==
    /\ pc[c] = "read_register_t"
    /\ LET r == read_register(c, call[c].addr)
       IN  /\ log' = [log EXCEPT ![c] = r.log]
           /\ Return(c, r.res)
    /\ UNCHANGED regs
    /\ Frame

WriteRegister(c, addr, v, fault, limit) ==
    /\ Begin(c, [name |-> "write_register", addr |-> addr, value |-> v], fault, limit)
    /\ UNCHANGED regs
    /\ Suspend(c, "write_register_w", v)

WriteRegisterWrite(c) ==
    /\ pc[c] = "write_register_w"
    /\ \E landed \in Landings(c) :
         LET w == write_register(c, call[c].addr, value[c], landed)
         IN  /\ Written(c, w)
             /\ Return(c, w.res)
    /\ Frame

\* ------------------------------------------------------------------------
\* Specifications
\* ------------------------------------------------------------------------

InitWith(devices) ==
    /\ regs \in devices
    /\ pc = [c \in Callers |-> "idle"]
    /\ call = [c \in Callers |-> NoCall]
    /\ value = [c \in Callers |-> 0]
    /\ result = [c \in Callers |-> NoResult]
    /\ log = [c \in Callers |-> <<>>]
    /\ faultAt = [c \in Callers |-> 0]
    /\ entryRegs = [c \in Callers |-> regs]
    /\ ncalls = 0

\* One configure call, over every configuration and every fault position, on a
\* device whose registers hold a value no configure write produces.
ConfigureDevices == {[a \in Addrs |-> 0], [a \in Addrs |-> 165]}

InitConfigure == InitWith(ConfigureDevices)

NextConfigure ==
    \/ /\ CanCall(1, 1)
       /\ \E config \in Pcm4104Config, fault \in 0..3 : Configure(1, config, fault, 1)
    \/ \E c \in Callers : ConfigureWrite5(c)
    \/ \E c \in Callers : ConfigureWrite6(c)
    \/ \E c \in Callers : ConfigureWrite7(c)

SpecConfigure == InitConfigure /\ [][NextConfigure]_vars

\* One raw register access, over every u8 address, on a device whose registers
\* are all zero or all different.
RegisterDevices == {[a \in Addrs |-> 0], [a \in Addrs |-> 17 * a + 3]}

WriteValues == {0, 90, 255}

InitRegister == InitWith(RegisterDevices)

NextRegister ==
    \/ /\ CanCall(1, 1)
       /\ \E addr \in Byte, fault \in 0..1 : ReadRegister(1, addr, fault, 1)
    \/ /\ CanCall(1, 1)
       /\ \E addr \in Byte, v \in WriteValues, fault \in 0..1 :
            WriteRegister(1, addr, v, fault, 1)
    \/ \E c \in Callers : ReadRegisterTransfer(c)
    \/ \E c \in Callers : WriteRegisterWrite(c)

SpecRegister == InitRegister /\ [][NextRegister]_vars

\* One read-modify-write call, over every channel and flag, on a device whose
\* registers 5 and 6 hold any byte and whose registers all differ.
MutateDevices == {[a \in Addrs |-> (v + 37 * a) % 256] : v \in Byte}

InitMutate == InitWith(MutateDevices)

NextMutate ==
    \/ /\ CanCall(1, 1)
       /\ \E channel \in OutputChannel, mute \in BOOLEAN, fault \in 0..2 :
            SetMute(1, channel, mute, fault, 1)
    \/ /\ CanCall(1, 1)
       /\ \E channel \in OutputChannel, down \in BOOLEAN, fault \in 0..2 :
            SetPowerDown(1, channel, down, fault, 1)
    \/ \E c \in Callers : SetMuteRead(c)
    \/ \E c \in Callers : SetMuteWrite(c)
    \/ \E c \in Callers : SetPowerDownRead(c)
    \/ \E c \in Callers : SetPowerDownWrite(c)

SpecMutate == InitMutate /\ [][NextMutate]_vars

\* One set_attenuation call, over every channel and every attenuation byte, on a
\* device whose registers are all zero or all different.
InitAttenuation == InitWith(RegisterDevices)

NextAttenuation ==
    \/ /\ CanCall(1, 1)
       /\ \E channel \in OutputChannel, atten \in Byte, fault \in 0..1 :
            SetAttenuation(1, channel, atten, fault, 1)
    \/ \E c \in Callers : SetAttenuationWrite(c)

SpecAttenuation == InitAttenuation /\ [][NextAttenuation]_vars

\* One reset call, on a device whose register 6 holds any byte.
InitReset == InitWith(MutateDevices)

NextReset ==
    \/ /\ CanCall(1, 1)
       /\ \E fault \in 0..1 : Reset(1, fault, 1)
    \/ \E c \in Callers : ResetWrite(c)

SpecReset == InitReset /\ [][NextReset]_vars

\* A write_register call by caller 1 followed, once it has returned, by a
\* read_register call by caller 2, over every valid address and every byte.
InitRoundTrip == InitWith(RegisterDevices)

\* Caller 1 has made its call and the call has returned.
Returned1 == call[1].name # "none" /\ pc[1] = "idle"

NextRoundTrip ==
    \/ /\ CanCall(1, 1)
       /\ \E addr \in Addrs, v \in Byte, fault \in 0..1 :
            WriteRegister(1, addr, v, fault, 1)
    \/ \E c \in Callers : WriteRegisterWrite(c)
    \/ /\ Returned1
       /\ CanCall(2, 2)
       /\ \E addr \in Addrs, fault \in 0..1 : ReadRegister(2, addr, fault, 2)
    \/ \E c \in Callers : ReadRegisterTransfer(c)

SpecRoundTrip == InitRoundTrip /\ [][NextRoundTrip]_vars

\* Two callers of one device (two driver instances on a shared bus), each making
\* one read-modify-write call, their transport calls interleaved in any order.
ConcurrentDevices == {[a \in Addrs |-> 0], [a \in Addrs |-> 255], [a \in Addrs |-> 90]}

InitConcurrent == InitWith(ConcurrentDevices)

NextConcurrent ==
    \/ \E c \in {1, 2} :
         /\ call[c] = NoCall
         /\ CanCall(c, 2)
         /\ \E channel \in OutputChannel, mute \in BOOLEAN, fault \in 0..2 :
              SetMute(c, channel, mute, fault, 2)
    \/ \E c \in {1, 2} :
         /\ call[c] = NoCall
         /\ CanCall(c, 2)
         /\ \E channel \in OutputChannel, down \in BOOLEAN, fault \in 0..2 :
              SetPowerDown(c, channel, down, fault, 2)
    \/ \E c \in Callers : SetMuteRead(c)
    \/ \E c \in Callers : SetMuteWrite(c)
    \/ \E c \in Callers : SetPowerDownRead(c)
    \/ \E c \in Callers : SetPowerDownWrite(c)

SpecConcurrent == InitConcurrent /\ [][NextConcurrent]_vars

\* Sequences of at most MaxCalls calls of any operation by one caller, one call
\* at a time, over sample arguments, on a device that starts all zero or with
\* de-emphasis and soft mute set in single-rate mode.
MaxCalls == 3

SeqDevices == {[a \in Addrs |-> 0], [a \in Addrs |-> IF a = 5 THEN 242 ELSE 0]}

SeqConfigs ==
    {DefaultConfig,
     [DefaultConfig EXCEPT !.de_emphasis = "Fs44_1Khz", !.soft_mute = TRUE],
     [DefaultConfig EXCEPT !.sampling_mode = "DualRate", !.power_down = TRUE,
                           !.audio_data_format = "I2s24Bit"],
     [DefaultConfig EXCEPT !.sampling_mode = "QuadRate", !.de_emphasis = "Fs32Khz"]}

SeqValues == {0, 127}

SeqAddrs == {0, 5, 6, 8}

Init == InitWith(SeqDevices)

Next ==
    \/ /\ CanCall(1, MaxCalls)
       /\ \E config \in SeqConfigs, fault \in 0..3 :
            Configure(1, config, fault, MaxCalls)
    \/ /\ CanCall(1, MaxCalls)
       /\ \E channel \in OutputChannel, atten \in SeqValues, fault \in 0..1 :
            SetAttenuation(1, channel, atten, fault, MaxCalls)
    \/ /\ CanCall(1, MaxCalls)
       /\ \E channel \in OutputChannel, mute \in BOOLEAN, fault \in 0..2 :
            SetMute(1, channel, mute, fault, MaxCalls)
    \/ /\ CanCall(1, MaxCalls)
       /\ \E channel \in OutputChannel, down \in BOOLEAN, fault \in 0..2 :
            SetPowerDown(1, channel, down, fault, MaxCalls)
    \/ /\ CanCall(1, MaxCalls)
       /\ \E fault \in 0..1 : Reset(1, fault, MaxCalls)
    \/ /\ CanCall(1, MaxCalls)
       /\ \E addr \in SeqAddrs, fault \in 0..1 :
            ReadRegister(1, addr, fault, MaxCalls)
    \/ /\ CanCall(1, MaxCalls)
       /\ \E addr \in SeqAddrs, v \in SeqValues, fault \in 0..1 :
            WriteRegister(1, addr, v, fault, MaxCalls)
    \/ \E c \in Callers : ConfigureWrite5(c)
    \/ \E c \in Callers : ConfigureWrite6(c)
    \/ \E c \in Callers : ConfigureWrite7(c)
    \/ \E c \in Callers : SetAttenuationWrite(c)
    \/ \E c \in Callers : SetMuteRead(c)
    \/ \E c \in Callers : SetMuteWrite(c)
    \/ \E c \in Callers : SetPowerDownRead(c)
    \/ \E c \in Callers : SetPowerDownWrite(c)
    \/ \E c \in Callers : ResetWrite(c)
    \/ \E c \in Callers : ReadRegisterTransfer(c)
    \/ \E c \in Callers : WriteRegisterWrite(c)

Spec == Init /\ [][Next]_vars

\* Sequences of at most MaxCalls calls of configure, set_attenuation, set_mute,
\* set_power_down and reset by one caller, one call at a time, on a transport
\* that never fails and a device nobody else writes.
HealthyConfigs ==
    SeqConfigs \cup {[DefaultConfig EXCEPT !.sampling_mode = "QuadRate",
                                           !.soft_mute = TRUE]}

InitHealthy == InitWith(SeqDevices)

NextHealthy ==
    \/ /\ CanCall(1, MaxCalls)
       /\ \E config \in HealthyConfigs : Configure(1, config, 0, MaxCalls)
    \/ /\ CanCall(1, MaxCalls)
       /\ \E channel \in OutputChannel, atten \in SeqValues :
            SetAttenuation(1, channel, atten, 0, MaxCalls)
    \/ /\ CanCall(1, MaxCalls)
       /\ \E channel \in OutputChannel, mute \in BOOLEAN :
            SetMute(1, channel, mute, 0, MaxCalls)
    \/ /\ CanCall(1, MaxCalls)
       /\ \E channel \in OutputChannel, down \in BOOLEAN :
            SetPowerDown(1, channel, down, 0, MaxCalls)
    \/ /\ CanCall(1, MaxCalls)
       /\ Reset(1, 0, MaxCalls)
    \/ \E c \in Callers : ConfigureWrite5(c)
    \/ \E c \in Callers : ConfigureWrite6(c)
    \/ \E c \in Callers : ConfigureWrite7(c)
    \/ \E c \in Callers : SetAttenuationWrite(c)
    \/ \E c \in Callers : SetMuteRead(c)
    \/ \E c \in Callers : SetMuteWrite(c)
    \/ \E c \in Callers : SetPowerDownRead(c)
    \/ \E c \in Callers : SetPowerDownWrite(c)
    \/ \E c \in Callers : ResetWrite(c)

SpecHealthy == InitHealthy /\ [][NextHealthy]_vars

\* ------------------------------------------------------------------------
\* Properties
\* ------------------------------------------------------------------------

\* The call of caller c has returned.
Returned(c) == call[c].name # "none" /\ pc[c] = "idle"

\* The register a recorded transport call addresses, and its data byte.
LogAddr(e) == e.tx[1] % 8
LogData(e) == e.tx[2]

\* Caller c called configure with a configuration the pre-check accepts.
ConfigureAccepted(c) ==
    /\ call[c].name = "configure"
    /\ \/ call[c].config.de_emphasis = "Disabled"
       \/ call[c].config.sampling_mode = "SingleRate"

\* C1: configure with de-emphasis enabled in DualRate or QuadRate mode, whatever
\* the other fields and the transport's state, returns DeEmphasisNotAvailable,
\* issues no transport call and leaves every device register unchanged.
C1_DeEmphasisRejected ==
    \A c \in Callers :
        ( /\ call[c].name = "configure"
          /\ call[c].config.de_emphasis \in {"Fs48Khz", "Fs44_1Khz", "Fs32Khz"}
          /\ call[c].config.sampling_mode \in {"DualRate", "QuadRate"} )
        => /\ pc[c] = "idle"
           /\ result[c] = Err("DeEmphasisNotAvailable")
           /\ log[c] = <<>>
           /\ regs = entryRegs[c]

C1_Witness ==
    \E c \in Callers :
        /\ Returned(c)
        /\ call[c].name = "configure"
        /\ call[c].config.de_emphasis = "Fs32Khz"
        /\ call[c].config.sampling_mode = "QuadRate"
        /\ call[c].config.soft_mute
        /\ call[c].config.power_down
        /\ result[c] = Err("DeEmphasisNotAvailable")
        /\ regs[5] = 165

\* C2: read_register and write_register with an address above 7 return
\* InvalidRegisterAddress and issue no transport call, whether or not the
\* transport was set to fail.
C2_InvalidAddressRejected ==
    \A c \in Callers :
        ( /\ call[c].name \in {"read_register", "write_register"}
          /\ call[c].addr > 7 )
        => /\ log[c] = <<>>
           /\ regs = entryRegs[c]
           /\ pc[c] = "idle" => result[c] = Err("InvalidRegisterAddress")

C2_Witness ==
    \E c \in Callers :
        /\ Returned(c)
        /\ call[c].name = "write_register"
        /\ call[c].addr = 8
        /\ faultAt[c] = 1
        /\ result[c] = Err("InvalidRegisterAddress")

\* C3: a configure call that passes the pre-check and meets no transport
\* failure issues exactly three transport calls, all of them writes, to
\* register 5, then 6, then 7, and returns success.
C3_ConfigureThreeWrites ==
    \A c \in Callers :
        (ConfigureAccepted(c) /\ faultAt[c] = 0)
        => /\ Len(log[c]) <= 3
           /\ \A i \in 1..Len(log[c]) :
                /\ log[c][i].kind = "write"
                /\ log[c][i].ok
                /\ LogAddr(log[c][i]) = 4 + i
           /\ pc[c] = "idle" => (Len(log[c]) = 3 /\ result[c] = Ok)
           /\ pc[c] # "idle" => result[c] = NoResult

C3_Witness ==
    \E c \in Callers :
        /\ Returned(c)
        /\ ConfigureAccepted(c)
        /\ call[c].config.de_emphasis = "Fs32Khz"
        /\ faultAt[c] = 0
        /\ Len(log[c]) = 3
        /\ result[c] = Ok

\* C4: if the k-th register write of configure fails in the transport, configure
\* returns SpiError having issued exactly k transport calls (no retry, no later
\* write, no rollback), and the registers written by the k-1 earlier writes
\* hold their new values.
C4_ConfigureAbortsOnFailure ==
    \A c \in Callers :
        (ConfigureAccepted(c) /\ faultAt[c] \in 1..3)
        => /\ Len(log[c]) <= faultAt[c]
           /\ \A i \in 1..Len(log[c]) :
                /\ log[c][i].kind = "write"
                /\ LogAddr(log[c][i]) = 4 + i
                /\ log[c][i].ok <=> i < faultAt[c]
                /\ i < faultAt[c] => regs[4 + i] = LogData(log[c][i])
           /\ pc[c] = "idle" =>
                (Len(log[c]) = faultAt[c] /\ result[c] = Err("SpiError"))

C4_Witness ==
    \E c \in Callers :
        /\ Returned(c)
        /\ ConfigureAccepted(c)
        /\ faultAt[c] = 3
        /\ result[c] = Err("SpiError")
        /\ Len(log[c]) = 3
        /\ entryRegs[c][5] = 165 /\ regs[5] = LogData(log[c][1])
        /\ entryRegs[c][6] = 165 /\ regs[6] = LogData(log[c][2])

\* C5: the value configure writes to register 5 has bits[1:0] = the de-emphasis
\* code (Disabled=00, Fs48Khz=01, Fs44_1Khz=10, Fs32Khz=11), bit 2 = output phase
\* (Inverted=1), bit 3 = zero_data_mute, and bits[7:4] = 1111 when soft_mute is
\* set and 0000 otherwise.
C5_FunctionControlLayout ==
    \A c \in Callers :
        (ConfigureAccepted(c) /\ Len(log[c]) >= 1)
        => LET v   == LogData(log[c][1])
               cfg == call[c].config
           IN  /\ LogAddr(log[c][1]) = 5
               /\ v \in Byte
               /\ v % 4 = ( CASE cfg.de_emphasis = "Disabled"  -> 0
                              [] cfg.de_emphasis = "Fs48Khz"   -> 1
                              [] cfg.de_emphasis = "Fs44_1Khz" -> 2
                              [] cfg.de_emphasis = "Fs32Khz"   -> 3 )
               /\ Bit(v, 2) = BoolBit(cfg.output_phase = "Inverted")
               /\ Bit(v, 3) = BoolBit(cfg.zero_data_mute)
               /\ v \div 16 = (IF cfg.soft_mute THEN 15 ELSE 0)

C5_Witness ==
    \E c \in Callers :
        /\ ConfigureAccepted(c)
        /\ Len(log[c]) >= 1
        /\ call[c].config.de_emphasis = "Fs44_1Khz"
        /\ call[c].config.output_phase = "Inverted"
        /\ ~call[c].config.zero_data_mute
        /\ call[c].config.soft_mute
        /\ LogData(log[c][1]) = 246
        /\ regs[5] = 246

\* Caller c called configure with the configuration of the spec's example:
\* SingleRate, Fs48Khz, Inverted output phase, zero_data_mute, no soft_mute,
\* everything else at its default.
C6_Case(c) ==
    /\ call[c].name = "configure"
    /\ call[c].config = [DefaultConfig EXCEPT !.de_emphasis = "Fs48Khz",
                                              !.output_phase = "Inverted",
                                              !.zero_data_mute = TRUE]
    /\ Len(log[c]) >= 1

\* C6 as stated: that configuration writes 0b00000101 to register 5.
C6_Original ==
    \A c \in Callers :
        C6_Case(c) => (LogAddr(log[c][1]) = 5 /\ LogData(log[c][1]) = 5)

\* C6 as amended: that configuration writes 0b00001101 to register 5
\* (de-emphasis 01, phase bit 2, zero_data_mute bit 3, soft-mute nibble 0000).
C6_ExampleValue ==
    \A c \in Callers :
        C6_Case(c) => (LogAddr(log[c][1]) = 5 /\ LogData(log[c][1]) = 13)

C6_Witness ==
    \E c \in Callers :
        /\ C6_Case(c)
        /\ log[c][1].kind = "write"
        /\ log[c][1].ok
        /\ regs[5] = 13

\* C7: the value configure writes to register 6 has bits[1:0] = the sampling-mode
\* code (SingleRate=00, DualRate=01, QuadRate=10), bits[3:2] = 11 when power_down
\* is set and 00 otherwise, and bits[7:4] zero (the reset bit 6 is never written).
C7_SystemControlLayout ==
    \A c \in Callers :
        (ConfigureAccepted(c) /\ Len(log[c]) >= 2)
        => LET v   == LogData(log[c][2])
               cfg == call[c].config
           IN  /\ LogAddr(log[c][2]) = 6
               /\ v \in Byte
               /\ v % 4 = ( CASE cfg.sampling_mode = "SingleRate" -> 0
                              [] cfg.sampling_mode = "DualRate"   -> 1
                              [] cfg.sampling_mode = "QuadRate"   -> 2 )
               /\ (v \div 4) % 4 = (IF cfg.power_down THEN 3 ELSE 0)
               /\ v \div 16 = 0
               /\ Bit(v, 6) = 0

C7_Witness ==
    \E c \in Callers :
        /\ ConfigureAccepted(c)
        /\ Len(log[c]) >= 2
        /\ call[c].config.sampling_mode = "QuadRate"
        /\ call[c].config.power_down
        /\ LogData(log[c][2]) = 14
        /\ regs[6] = 14

\* C8: the value configure writes to register 7 has bits[2:0] = the audio data
\* format code (the 8 formats map one-to-one onto 000..111), bit 4 = frame-clock
\* polarity (Inverted=1), bit 5 = bit-clock sampling edge (Falling=1), and bits
\* 3, 6 and 7 zero.
C8_AudioSerialPortLayout ==
    \A c \in Callers :
        (ConfigureAccepted(c) /\ Len(log[c]) >= 3)
        => LET v   == LogData(log[c][3])
               cfg == call[c].config
           IN  /\ LogAddr(log[c][3]) = 7
               /\ v \in Byte
               /\ v % 8 = AudioDataFormatU8(cfg.audio_data_format)
               /\ {AudioDataFormatU8(f) : f \in AudioDataFormat} = 0..7
               /\ Cardinality(AudioDataFormat) = 8
               /\ Bit(v, 4) = BoolBit(cfg.lrck_polarity = "Inverted")
               /\ Bit(v, 5) = BoolBit(cfg.bck_sampling_edge = "Falling")
               /\ Bit(v, 3) = 0 /\ Bit(v, 6) = 0 /\ Bit(v, 7) = 0

C8_Witness ==
    \E c \in Callers :
        /\ ConfigureAccepted(c)
        /\ Len(log[c]) >= 3
        /\ call[c].config.audio_data_format = "RightJustified18Bit"
        /\ call[c].config.lrck_polarity = "Inverted"
        /\ call[c].config.bck_sampling_edge = "Falling"
        /\ LogData(log[c][3]) = 54
        /\ regs[7] = 54

\* Index 0..3 of Channel1..Channel4.
ChannelIndex(channel) ==
    CASE channel = "Channel1" -> 0
      [] channel = "Channel2" -> 1
      [] channel = "Channel3" -> 2
      [] channel = "Channel4" -> 3

\* Byte w is byte v with bit b set to flag and the other seven bits kept.
OnlyBitChanged(v, w, b, flag) ==
    \A k \in 0..7 : Bit(w, k) = (IF k = b THEN BoolBit(flag) ELSE Bit(v, k))

\* C9: set_mute(channel, mute) without transport failure reads register 5, then
\* writes register 5 with the value read changed only in bit 4 + channel index,
\* which is set to mute; set_mute(Channel3, true) on 0b00000000 writes
\* 0b01000000; no register other than 5 is accessed.
C9_SetMuteSingleBit ==
    \A c \in Callers :
        call[c].name = "set_mute"
        => /\ \A i \in 1..Len(log[c]) : LogAddr(log[c][i]) = 5
           /\ (faultAt[c] = 0 /\ pc[c] = "idle")
              => /\ result[c] = Ok
                 /\ Len(log[c]) = 2
                 /\ log[c][1].kind = "transfer" /\ log[c][1].ok
                 /\ log[c][2].kind = "write" /\ log[c][2].ok
                 /\ LET v == log[c][1].rx[2]
                        w == LogData(log[c][2])
                    IN  /\ v = entryRegs[c][5]
                        /\ w \in Byte
                        /\ OnlyBitChanged(v, w, 4 + ChannelIndex(call[c].channel),
                                          call[c].mute)
                        /\ (call[c].channel = "Channel3" /\ call[c].mute /\ v = 0)
                           => w = 64
                        /\ regs = [entryRegs[c] EXCEPT ![5] = w]

C9_Witness ==
    \E c \in Callers :
        /\ Returned(c)
        /\ call[c] = [name |-> "set_mute", channel |-> "Channel3", mute |-> TRUE]
        /\ faultAt[c] = 0
        /\ result[c] = Ok
        /\ entryRegs[c][5] = 0
        /\ log[c][1].rx[2] = 0
        /\ LogData(log[c][2]) = 64
        /\ regs[5] = 64

\* C10: set_power_down(channel, down) without transport failure writes register 6
\* with the value read changed only in bit 2 for Channel1/Channel2 and only in
\* bit 3 for Channel3/Channel4 (set when down); the two channels of a pair write
\* the same value from the same value read; set_power_down(Channel1, true) on
\* 0b00000001 writes 0b00000101.
C10_SetPowerDownPairBit ==
    \A c \in Callers :
        (call[c].name = "set_power_down" /\ faultAt[c] = 0 /\ pc[c] = "idle")
        => /\ result[c] = Ok
           /\ Len(log[c]) = 2
           /\ log[c][1].kind = "transfer" /\ LogAddr(log[c][1]) = 6
           /\ log[c][2].kind = "write" /\ LogAddr(log[c][2]) = 6
           /\ LET v == log[c][1].rx[2]
                  w == LogData(log[c][2])
                  b == IF call[c].channel \in {"Channel1", "Channel2"} THEN 2 ELSE 3
              IN  /\ v = entryRegs[c][6]
                  /\ w \in Byte
                  /\ OnlyBitChanged(v, w, b, call[c].down)
                  /\ \A d \in BOOLEAN :
                       /\ PowerDownValue(v, "Channel1", d) = PowerDownValue(v, "Channel2", d)
                       /\ PowerDownValue(v, "Channel3", d) = PowerDownValue(v, "Channel4", d)
                  /\ (call[c].channel = "Channel1" /\ call[c].down /\ v = 1) => w = 5
                  /\ regs = [entryRegs[c] EXCEPT ![6] = w]

C10_Witness ==
    \E c \in Callers :
        /\ Returned(c)
        /\ call[c] = [name |-> "set_power_down", channel |-> "Channel2", down |-> TRUE]
        /\ faultAt[c] = 0
        /\ result[c] = Ok
        /\ log[c][1].rx[2] = 1
        /\ LogData(log[c][2]) = 5
        /\ regs[6] = 5

\* C11: set_attenuation(channel, atten) issues exactly one transport call, a write
\* of the unmodified byte atten to register 1, 2, 3 or 4 for Channel1..Channel4,
\* with no read before it, and leaves every other register unchanged.
C11_SetAttenuationSingleWrite ==
    \A c \in Callers :
        call[c].name = "set_attenuation"
        => LET addr == 1 + ChannelIndex(call[c].channel)
           IN  /\ Len(log[c]) <= 1
               /\ \A i \in 1..Len(log[c]) :
                    /\ log[c][i].kind = "write"
                    /\ LogAddr(log[c][i]) = addr
                    /\ LogData(log[c][i]) = call[c].atten
               /\ \A a \in Addrs : a # addr => regs[a] = entryRegs[c][a]
               /\ pc[c] = "idle" => Len(log[c]) = 1
               /\ (pc[c] = "idle" /\ faultAt[c] = 0)
                  => (result[c] = Ok /\ regs[addr] = call[c].atten)

C11_Witness ==
    \E c \in Callers :
        /\ Returned(c)
        /\ call[c] = [name |-> "set_attenuation", channel |-> "Channel2", atten |-> 127]
        /\ result[c] = Ok
        /\ Len(log[c]) = 1
        /\ log[c][1].tx = <<34, 127>>
        /\ entryRegs[c][2] = 37
        /\ regs[2] = 127

\* C12: reset() issues exactly one transport call, a write to register 6 of the
\* value 0b1000000 (only bit 6 set), with no read before or after it, whatever
\* the device state.
C12_ResetSingleWrite ==
    \A c \in Callers :
        call[c].name = "reset"
        => /\ Len(log[c]) <= 1
           /\ \A i \in 1..Len(log[c]) :
                /\ log[c][i].kind = "write"
                /\ LogAddr(log[c][i]) = 6
                /\ \A k \in 0..7 : Bit(LogData(log[c][i]), k) = BoolBit(k = 6)
           /\ \A a \in Addrs : a # 6 => regs[a] = entryRegs[c][a]
           /\ pc[c] = "idle" => Len(log[c]) = 1
           /\ (pc[c] = "idle" /\ faultAt[c] = 0) => (result[c] = Ok /\ regs[6] = 64)

C12_Witness ==
    \E c \in Callers :
        /\ Returned(c)
        /\ call[c].name = "reset"
        /\ result[c] = Ok
        /\ Len(log[c]) = 1
        /\ log[c][1].tx = <<38, 64>>
        /\ entryRegs[c][6] = 255
        /\ regs[6] = 64

\* C13: on a device that stores written bytes and echoes them on read, for every
\* address a in 0..7 and every byte v, write_register(a, v) followed by
\* read_register(a) returns v, and the register at every other address is
\* unchanged by the pair.
C13_WriteReadRoundTrip ==
    ( /\ call[1].name = "write_register" /\ pc[1] = "idle" /\ result[1] = Ok
      /\ call[2].name = "read_register" /\ pc[2] = "idle" /\ faultAt[2] = 0
      /\ call[2].addr = call[1].addr )
    => /\ result[2] = OkValue(call[1].value)
       /\ \A a \in Addrs : a # call[1].addr => regs[a] = entryRegs[1][a]

C13_Witness ==
    /\ call[1] = [name |-> "write_register", addr |-> 3, value |-> 200]
    /\ result[1] = Ok
    /\ call[2] = [name |-> "read_register", addr |-> 3]
    /\ pc[2] = "idle"
    /\ entryRegs[1][3] = 54
    /\ result[2] = OkValue(200)

\* C14: for every address a in 0..7, read_register(a) issues one 2-byte transfer
\* sending 0b10100000 | a then 0 and returns the second received byte;
\* write_register(a, v) issues one 2-byte write of 0b00100000 | a then v.  In
\* both command bytes bits[7:5] are the opcode, bits[4:3] are zero and bits[2:0]
\* are the address.
C14_CommandBytes ==
    \A c \in Callers :
        /\ (call[c].name = "read_register" /\ call[c].addr <= 7)
           => /\ Len(log[c]) <= 1
              /\ \A i \in 1..Len(log[c]) :
                   /\ log[c][i].kind = "transfer"
                   /\ Len(log[c][i].tx) = 2 /\ Len(log[c][i].rx) = 2
                   /\ log[c][i].tx[1] = 160 + call[c].addr
                   /\ log[c][i].tx[1] \div 32 = 5
                   /\ (log[c][i].tx[1] \div 8) % 4 = 0
                   /\ log[c][i].tx[1] % 8 = call[c].addr
                   /\ log[c][i].tx[2] = 0
              /\ pc[c] = "idle" => Len(log[c]) = 1
              /\ (pc[c] = "idle" /\ faultAt[c] = 0)
                 => /\ result[c] = OkValue(log[c][1].rx[2])
                    /\ result[c].val = entryRegs[c][call[c].addr]
        /\ (call[c].name = "write_register" /\ call[c].addr <= 7)
           => /\ Len(log[c]) <= 1
              /\ \A i \in 1..Len(log[c]) :
                   /\ log[c][i].kind = "write"
                   /\ Len(log[c][i].tx) = 2
                   /\ log[c][i].tx[1] = 32 + call[c].addr
                   /\ log[c][i].tx[1] \div 32 = 1
                   /\ (log[c][i].tx[1] \div 8) % 4 = 0
                   /\ log[c][i].tx[1] % 8 = call[c].addr
                   /\ log[c][i].tx[2] = call[c].value
              /\ pc[c] = "idle" => Len(log[c]) = 1
              /\ (pc[c] = "idle" /\ faultAt[c] = 0) => result[c] = Ok

C14_Witness ==
    \E c \in Callers :
        /\ Returned(c)
        /\ call[c] = [name |-> "read_register", addr |-> 7]
        /\ log[c] = <<[kind |-> "transfer", tx |-> <<167, 0>>, rx |-> <<0, 122>>,
                       ok |-> TRUE]>>
        /\ result[c] = OkValue(122)

\* The register, bit and flag a read-modify-write call is about.
RmwReg(c) == IF call[c].name = "set_mute" THEN 5 ELSE 6

RmwBit(c) ==
    IF call[c].name = "set_mute" THEN 4 + ChannelIndex(call[c].channel)
    ELSE IF call[c].channel \in {"Channel1", "Channel2"} THEN 2 ELSE 3

RmwFlag(c) == IF call[c].name = "set_mute" THEN call[c].mute ELSE call[c].down

\* Callers 1 and 2 both returned success from read-modify-write calls on the same
\* register and different bits, each call changing its bit of the value it read.
BothChanged ==
    /\ call[1].name \in {"set_mute", "set_power_down"}
    /\ call[2].name = call[1].name
    /\ RmwBit(1) # RmwBit(2)
    /\ \A c \in {1, 2} :
         /\ pc[c] = "idle" /\ result[c] = Ok
         /\ Bit(log[c][1].rx[2], RmwBit(c)) # BoolBit(RmwFlag(c))

\* The device register reflects the change of caller c.
Reflected(c) == Bit(regs[RmwReg(c)], RmwBit(c)) = BoolBit(RmwFlag(c))

\* C15: two callers running read-modify-write operations on the same register
\* with interleaved transactions can lose an update: when both calls read the
\* register before either wrote it, both return success and the final register
\* value reflects exactly one of the two changes; only when one call read what
\* the other wrote are both changes reflected.  (That the interleaving happens
\* at all, the driver taking no lock, is the reachability of C15_Witness.)
C15_LostUpdate ==
    BothChanged
    => /\ regs[RmwReg(1)] \in {LogData(log[1][2]), LogData(log[2][2])}
       /\ log[1][1].rx[2] = log[2][1].rx[2] => (Reflected(1) # Reflected(2))
       /\ log[1][1].rx[2] # log[2][1].rx[2] => (Reflected(1) /\ Reflected(2))

C15_Witness ==
    /\ call[1] = [name |-> "set_mute", channel |-> "Channel1", mute |-> TRUE]
    /\ call[2] = [name |-> "set_mute", channel |-> "Channel2", mute |-> TRUE]
    /\ pc[1] = "idle" /\ result[1] = Ok
    /\ pc[2] = "idle" /\ result[2] = Ok
    /\ entryRegs[1][5] = 0 /\ entryRegs[2][5] = 0
    /\ log[1][1].rx[2] = 0 /\ log[2][1].rx[2] = 0
    /\ regs[5] = 32

\* C16: in set_mute and set_power_down the read precedes the write and the call
\* issues at most two transport calls.  If the read fails the call returns
\* SpiError without writing and the device is unchanged; if the write fails the
\* call returns SpiError without retrying; the call returns success only when
\* both transactions succeeded.
C16_ReadModifyWriteErrors ==
    \A c \in Callers :
        call[c].name \in {"set_mute", "set_power_down"}
        => /\ Len(log[c]) <= 2
           /\ Len(log[c]) >= 1 => log[c][1].kind = "transfer"
           /\ Len(log[c]) = 2 => (log[c][1].ok /\ log[c][2].kind = "write")
           /\ Len(log[c]) = 0 => regs = entryRegs[c]
           /\ (pc[c] = "idle" /\ faultAt[c] = 1)
              => /\ result[c] = Err("SpiError")
                 /\ Len(log[c]) = 1 /\ ~log[c][1].ok
                 /\ regs = entryRegs[c]
           /\ (pc[c] = "idle" /\ faultAt[c] = 2)
              => /\ result[c] = Err("SpiError")
                 /\ Len(log[c]) = 2 /\ ~log[c][2].ok
           /\ pc[c] = "idle"
              => /\ result[c] \in {Ok, Err("SpiError")}
                 /\ result[c] = Ok
                    <=> (Len(log[c]) = 2 /\ log[c][1].ok /\ log[c][2].ok)

C16_Witness ==
    \E c \in Callers :
        /\ Returned(c)
        /\ call[c] = [name |-> "set_power_down", channel |-> "Channel3", down |-> TRUE]
        /\ faultAt[c] = 1
        /\ result[c] = Err("SpiError")
        /\ Len(log[c]) = 1
        /\ entryRegs[c][6] = 0
        /\ regs[6] = 0

\* The full address a recorded transport call carries below its opcode.
LogFullAddr(e) == e.tx[1] - (IF e.kind = "write" THEN 32 ELSE 160)

\* The registers an operation may access.
AllowedAddrs(theCall) ==
    CASE theCall.name = "configure"       -> {5, 6, 7}
      [] theCall.name = "set_attenuation" -> {1 + ChannelIndex(theCall.channel)}
      [] theCall.name = "set_mute"        -> {5}
      [] theCall.name = "set_power_down"  -> {6}
      [] theCall.name = "reset"           -> {6}

\* C17: in every sequence of configure, set_attenuation, set_mute, set_power_down
\* and reset calls, with or without transport failures, no transaction is
\* addressed to register 0 or above 7 and no call returns
\* InvalidRegisterAddress: attenuation goes to 1..4, mute to 5, power-down and
\* reset to 6, configure to 5, 6 and 7.
C17_AddressesInRange ==
    \A c \in Callers :
        call[c].name \in {"configure", "set_attenuation", "set_mute",
                          "set_power_down", "reset"}
        => /\ result[c] # Err("InvalidRegisterAddress")
           /\ \A i \in 1..Len(log[c]) :
                /\ LogFullAddr(log[c][i]) \in 1..7
                /\ LogFullAddr(log[c][i]) \in AllowedAddrs(call[c])
                /\ LogAddr(log[c][i]) = LogFullAddr(log[c][i])

C17_Witness ==
    \E c \in Callers :
        /\ ncalls = 3
        /\ Returned(c)
        /\ call[c].name = "configure"
        /\ faultAt[c] = 3
        /\ result[c] = Err("SpiError")
        /\ Len(log[c]) = 3
        /\ entryRegs[c][4] = 127
        /\ entryRegs[c][6] = 64

\* C18: from a device with de-emphasis bits 00 in register 5 or sampling-mode
\* bits 00 in register 6, after any sequence of configure, set_attenuation,
\* set_mute, set_power_down and reset calls with no transport failure and no
\* other writer, at the end of every call register 5 bits[1:0] # 00 implies
\* register 6 bits[1:0] = 00.
C18_DeEmphasisOnlySingleRate ==
    (\A c \in Callers : pc[c] = "idle")
    => (regs[5] % 4 # 0 => regs[6] % 4 = 0)

C18_Witness ==
    /\ ncalls = 3
    /\ Returned(1)
    /\ call[1].name = "set_mute"
    /\ result[1] = Ok
    /\ regs[5] % 4 = 2
    /\ regs[6] = 64

\* C19: immediately after a successful configure the four mute bits of register 5
\* all equal config.soft_mute and the two power-down bits of register 6 both
\* equal config.power_down, whatever set_mute and set_power_down calls came
\* before; configure never reads a register.
C19_ConfigureOverridesChannels ==
    \A c \in Callers :
        call[c].name = "configure"
        => /\ \A i \in 1..Len(log[c]) : log[c][i].kind = "write"
           /\ (pc[c] = "idle" /\ result[c] = Ok)
              => /\ \A k \in 4..7 : Bit(regs[5], k) = BoolBit(call[c].config.soft_mute)
                 /\ \A k \in 2..3 : Bit(regs[6], k) = BoolBit(call[c].config.power_down)

C19_Witness ==
    \E c \in Callers :
        /\ ncalls = 3
        /\ Returned(c)
        /\ call[c].name = "configure"
        /\ result[c] = Ok
        /\ ~call[c].config.soft_mute /\ ~call[c].config.power_down
        /\ entryRegs[c][5] = 64
        /\ entryRegs[c][6] = 4
        /\ regs[5] \div 16 = 0
        /\ regs[6] = 0

====
